---- MODULE Spec2Model ----
(***************************************************************************)
(* Upload engine of firestore-data-uploader: the useFirestoreRestUpload    *)
(* hook (token acquisition, grouped document writes, progress and log),    *)
(* the file parsers that feed it and the application's handleUpload.       *)
(*                                                                         *)
(* App.tsx takes uploadDocuments from a hook with the interface of          *)
(* useFirestoreRestUpload; the model wires handleUpload to the REST hook,  *)
(* the engine the specification describes.                                 *)
(*                                                                         *)
(* JavaScript runs one task at a time.  Every action below is one          *)
(* uninterrupted run of code between two suspension points (an await on a  *)
(* pending promise, a timer).  Continuations of already settled promises   *)
(* (microtasks) run before any network response or timer is delivered;     *)
(* MicrotaskPending states that priority.                                  *)
(***************************************************************************)
EXTENDS Integers, Sequences, FiniteSets, TLC

\* ---------------------------------------------------------------- bounds
\* Longest document list uploaded when responses arrive in any order.
MaxDocs == 6
\* Longest document list uploaded when responses arrive in request order.
MaxOrderlyDocs == 12
\* Longest data file (in lines) read by the application.
MaxLines == 2
\* addLog calls made in the log-only specification beyond the log's cap.
ExtraEmits == 3
\* Leading addLog calls of the log-only specification whose kind is free.
FreeEmits == 2
\* Clock readings (beyond the first) seen by those leading addLog calls.
MaxTicks == 1
\* Long document lists: one length at which a percentage falls on a tie, and
\* the lengths from one below the log's cap to ExtraDocs above it.
TieDocs == 40
ExtraDocs == 1
\* Longest interior of a GeoPoint sentinel, in characters, and longest array
\* among the documents given to the encoder on its own.
MaxInterior == 5
MaxArray == 2
\* Longest list of each of two overlapping calls: when the responses come in
\* any order, and when they come in the order of the requests.
MaxOverlapDocs == 1
MaxOverlapOrderly == 6
\* Most custom instructions stored next to the default one, and the number of
\* frames of CredentialStorage methods the call stack has room for.
MaxInstructions == 2
StackLimit == 6

\* ------------------------------------------------------ program constants
batchSize == 5
LogCap == 100

CallIds == {"c1", "c2"}

VARIABLES
    isUploading,  \* useState(false)
    progress,     \* useState<UploadProgress>
    logs,         \* useState<UploadLog[]>, newest first
    clock,        \* Date.now()
    call,         \* per uploadDocuments invocation: its locals and position
    app,          \* App.handleUpload: its position and the errors state
    env,          \* behaviour of the network during this run
    emitted,      \* history: every entry addLog was called with, oldest first
    enc,          \* one convertToFirestoreFormat call: its argument and result
    store         \* CredentialStorage: the stored custom instructions and the call stack

vars == <<isUploading, progress, logs, clock, call, app, env, emitted, enc, store>>

\* ---------------------------------------------------------------- helpers
Min(a, b) == IF a < b THEN a ELSE b

Take(s, n) == SubSeq(s, 1, Min(n, Len(s)))

RECURSIVE SeqsUpTo(_, _)
SeqsUpTo(S, n) ==
    IF n = 0 THEN {<<>>}
    ELSE LET shorter == SeqsUpTo(S, n - 1)
         IN shorter \cup {Append(s, x) : s \in {t \in shorter : Len(t) = n - 1}, x \in S}

\* ------------------------------------------------------------------- log
LogTypes == {"success", "error", "info"}

Message(text, a, b) == [text |-> text, a |-> a, b |-> b]

NoDetails == ""

\* The hook's log state together with the history of emitted entries.
LogState == [logs |-> logs, emitted |-> emitted]

NewLog(type, message, details) ==
    [id |-> clock, type |-> type, message |-> message, details |-> details]

\* addLog without the slice.
AddLogNoCap(L, type, message, details) ==
    LET log == NewLog(type, message, details)
    IN [logs |-> <<log>> \o L.logs, emitted |-> Append(L.emitted, log)]

\* setLogs(prev => [log, ...prev].slice(0, 100))
AddLog(L, type, message, details) ==
    LET log == NewLog(type, message, details)
    IN [logs |-> Take(<<log>> \o L.logs, LogCap), emitted |-> Append(L.emitted, log)]

\* -------------------------------------------------------------- progress
ZeroProgress == [total |-> 0, completed |-> 0, failed |-> 0, percentage |-> 0]

\* JavaScript numbers are IEEE-754 doubles: a quotient and a product are each
\* rounded to 53 significant bits, ties to even.  A positive double is written
\* [limbs, exp]: three limbs of 18 bits, most significant first, spelling a
\* natural number of (usually) 53 bits, times 2^exp.
Precision == 53

Limb == 2^18

\* Zero bits after the binary point of r / n before its first one bit.
RECURSIVE LeadingZeros(_, _)
LeadingZeros(r, n) == IF 2 * r >= n THEN 0 ELSE 1 + LeadingZeros(2 * r, n)

RECURSIVE BitLength(_)
BitLength(x) == IF x = 0 THEN 0 ELSE 1 + BitLength(x \div 2)

Carry(limbs, add) ==
    LET low == limbs[3] + add
        mid == limbs[2] + low \div Limb
    IN <<limbs[1] + mid \div Limb, mid % Limb, low % Limb>>

ShiftRight(limbs, s) ==
    <<limbs[1] \div 2^s,
      limbs[2] \div 2^s + (limbs[1] % 2^s) * 2^(18 - s),
      limbs[3] \div 2^s + (limbs[2] % 2^s) * 2^(18 - s)>>

\* Round the number spelled by limbs (its first limb may exceed 18 bits) to
\* Precision bits, to nearest and ties to even; sticky says that non-zero bits
\* lie beyond the last limb.
RoundToPrecision(limbs, sticky, exp) ==
    LET s == 36 + BitLength(limbs[1]) - Precision
        kept == ShiftRight(limbs, s)
        dropped == limbs[3] % 2^s
        half == 2^(s - 1)
        up == \/ dropped > half
              \/ dropped = half /\ (sticky \/ kept[3] % 2 = 1)
    IN [limbs |-> Carry(kept, IF up THEN 1 ELSE 0), exp |-> exp + s]

\* The double k / n, for k > 0: with m = n * 2^h the least such multiple of n
\* above k, long division of k by m to 54 bits, then rounding.
Divide(k, n) ==
    LET h == BitLength(k \div n)
        m == n * 2^h
        z == LeadingZeros(k, m)
        r0 == k * 2^z
        r1 == (r0 * Limb) % m
        r2 == (r1 * Limb) % m
        r3 == (r2 * Limb) % m
        quotient == <<(r0 * Limb) \div m, (r1 * Limb) \div m, (r2 * Limb) \div m>>
    IN RoundToPrecision(quotient, r3 # 0, h - (z + 54))

\* The double d * 100.
Times100(d) ==
    LET low == d.limbs[3] * 100
        mid == d.limbs[2] * 100 + low \div Limb
        top == d.limbs[1] * 100 + mid \div Limb
    IN RoundToPrecision(<<top, mid % Limb, low % Limb>>, FALSE, d.exp)

\* Math.round of a double below 2^16: its integer part, plus one when its
\* fraction is at least one half.
MathRound(d) ==
    LET f == 0 - d.exp
    IN (d.limbs[1] \div 2^(f - 36)) + ((d.limbs[1] \div 2^(f - 37)) % 2)

\* The longest document list of any specification of this module.
LongestList ==
    LET lengths == {MaxDocs, MaxOrderlyDocs, MaxLines, TieDocs, LogCap + ExtraDocs}
    IN CHOOSE m \in lengths : \A x \in lengths : x <= m

\* Math.round((done / n) * 100); 0 / n is 0, exactly.
RoundedPercent(done, n) ==
    IF done = 0 THEN 0 ELSE MathRound(Times100(Divide(done, n)))

\* RoundedPercent tabulated once for the arguments the code passes.
Percentages ==
    [n \in 1..LongestList |-> [done \in 0..n |-> RoundedPercent(done, n)]]

\* Math.round(((completed + failed) / documents.length) * 100); the code only
\* evaluates it inside the per-document callback, so n > 0.
Percentage(done, n) ==
    IF n \in 1..LongestList /\ done \in 0..n THEN Percentages[n][done]
    ELSE RoundedPercent(done, n)

\* setProgress with the percentage taken from completed alone.
PercentageOfCompleted(p, completed, failed, n) ==
    [p EXCEPT !.completed = completed, !.failed = failed,
              !.percentage = Percentage(completed, n)]

\* setProgress(prev => ({...prev, completed, failed, percentage})).  The
\* updater reads the call's counters; applied at once here, so every value the
\* counters take is published.
SetProgress(p, completed, failed, n) ==
    [p EXCEPT !.completed = completed, !.failed = failed,
              !.percentage = Percentage(completed + failed, n)]

\* ------------------------------------------------------------- documents
\* A document is known by what decides its path through the uploader: a plain
\* object, an object holding a malformed GeoPoint sentinel such as
\* "GeoPoint(abc)", or a JSON array (which JSONL parsing lets through).
DocKinds == {"object", "malformed_geopoint", "array"}

\* convertToFirestoreFormat throws for a malformed GeoPoint sentinel.
EncodingFails(doc) == doc = "malformed_geopoint"

EncodingError == "Invalid GeoPoint format"

\* Document lists with at most one document that is not a plain object.
DocLists(n) ==
    UNION {
        {[k \in 1..len |-> "object"]} \cup
        {[k \in 1..len |-> IF k = p THEN "malformed_geopoint" ELSE "object"] : p \in 1..len}
        : len \in 0..n}

\* ------------------------------------------------ convertToFirestoreFormat
\* JSON values, told apart as typeof and Array.isArray tell them apart.  A
\* string is the sequence of its characters, a number is written in tenths
\* (15 is 1.5), an object is the sequence of its entries in the order of
\* Object.entries.
Null == [type |-> "null"]
Str(s) == [type |-> "string", string |-> s]
Num(x) == [type |-> "number", number |-> x]
Bool(b) == [type |-> "boolean", boolean |-> b]
Arr(values) == [type |-> "array", elements |-> values]
Obj(entries) == [type |-> "object", entries |-> entries]
Entry(key, value) == [key |-> key, value |-> value]

TimestampSentinel == <<"T", "i", "m", "e", "s", "t", "a", "m", "p">>
GeoPointOpen == <<"G", "e", "o", "P", "o", "i", "n", "t", "(">>
GeoPointClose == <<")">>

StartsWith(s, p) == Len(s) >= Len(p) /\ SubSeq(s, 1, Len(p)) = p

EndsWith(s, p) == Len(s) >= Len(p) /\ SubSeq(s, Len(s) - Len(p) + 1, Len(s)) = p

\* s.slice(start, end) with start >= 0 and end < 0.
Slice(s, start, end) == SubSeq(s, start + 1, Len(s) + end)

\* s.split(sep): s is cut at every occurrence of sep.
RECURSIVE Split(_, _)
Split(s, sep) ==
    IF \A i \in 1..Len(s) : s[i] # sep THEN <<s>>
    ELSE LET i == CHOOSE j \in 1..Len(s) :
                      s[j] = sep /\ \A m \in 1..(j - 1) : s[m] # sep
         IN <<SubSeq(s, 1, i - 1)>> \o Split(SubSeq(s, i + 1, Len(s)), sep)

Whitespace == {" "}

Digits == {"0", "1", "2", "3", "4", "5", "6", "7", "8", "9"}

RECURSIVE TrimStart(_)
TrimStart(s) ==
    IF s # <<>> /\ s[1] \in Whitespace THEN TrimStart(Tail(s)) ELSE s

RECURSIVE TrimEnd(_)
TrimEnd(s) ==
    IF s # <<>> /\ s[Len(s)] \in Whitespace
    THEN TrimEnd(SubSeq(s, 1, Len(s) - 1)) ELSE s

\* s.trim()
Trim(s) == TrimEnd(TrimStart(s))

RECURSIVE DigitPrefix(_)
DigitPrefix(s) ==
    IF s # <<>> /\ s[1] \in Digits THEN <<s[1]>> \o DigitPrefix(Tail(s)) ELSE <<>>

\* A parsed number is its sign and its digits before and after the point, as
\* written; NaN has no digit.
NaN == [negative |-> FALSE, whole |-> <<>>, fraction |-> <<>>]

IsNaN(x) == x.whole = <<>> /\ x.fraction = <<>>

\* parseFloat(s): leading white space is skipped and the longest prefix that
\* is a decimal literal is converted; whatever follows it is ignored.
\* (Exponents and Infinity need characters no input of this module has.)
ParseFloat(s) ==
    LET t == TrimStart(s)
        signed == t # <<>> /\ t[1] \in {"-", "+"}
        body == IF signed THEN Tail(t) ELSE t
        whole == DigitPrefix(body)
        rest == SubSeq(body, Len(whole) + 1, Len(body))
        fraction == IF rest # <<>> /\ rest[1] = "." THEN DigitPrefix(Tail(rest))
                    ELSE <<>>
    IN IF whole = <<>> /\ fraction = <<>> THEN NaN
       ELSE [negative |-> signed /\ t[1] = "-", whole |-> whole, fraction |-> fraction]

\* Number.isInteger, on a number written in tenths.
IsInteger(x) == x % 10 = 0

\* new Date(ms).toISOString()
ToISOString(ms) == [iso |-> ms]

Throw(message) == [thrown |-> message]

IsThrown(w) == "thrown" \in DOMAIN w

\* Object.entries(value): an array's entries are keyed by its indices.
Entries(value) ==
    IF value.type = "array"
    THEN [i \in 1..Len(value.elements) |-> Entry(ToString(i - 1), value.elements[i])]
    ELSE value.entries

\* How many times converting the value evaluates `new Date()`.
RECURSIVE Timestamps(_), TimestampsIn(_, _)
TimestampsIn(values, count) ==
    IF count = 0 THEN 0
    ELSE TimestampsIn(values, count - 1) + Timestamps(values[count])

Timestamps(value) ==
    CASE value.type = "string" -> IF value.string = TimestampSentinel THEN 1 ELSE 0
      [] value.type = "array" -> TimestampsIn(value.elements, Len(value.elements))
      [] value.type = "object" ->
            TimestampsIn([i \in 1..Len(value.entries) |-> value.entries[i].value],
                         Len(value.entries))
      [] OTHER -> 0

\* The first exception thrown while the values were converted in order.
FirstThrown(wires) ==
    wires[CHOOSE i \in 1..Len(wires) :
              IsThrown(wires[i]) /\ \A j \in 1..(i - 1) : ~IsThrown(wires[j])]

\* const fields = {}; fields[key] = wire, entry after entry.  fields is an
\* ordinary object: assigning to its "__proto__" calls the setter inherited
\* from Object.prototype, which replaces the prototype of fields and creates
\* no property.
Assign(entries, wires) ==
    LET own == {entries[i].key : i \in 1..Len(entries)} \ {"__proto__"}
    IN [key \in own |-> wires[CHOOSE i \in 1..Len(entries) : entries[i].key = key]]

\* convertValue(value).  `before` counts the evaluations of `new Date()` made
\* earlier in this document; times[j] is the clock reading of the j-th one.
RECURSIVE ConvertValue(_, _, _), ConvertEntries(_, _, _)
ConvertValue(value, before, times) ==
    CASE value.type = "null" -> [nullValue |-> "null"]
      [] value.type = "string" ->
            IF value.string = TimestampSentinel
            THEN [timestampValue |-> ToISOString(times[before + 1])]
            ELSE IF StartsWith(value.string, GeoPointOpen)
                    /\ EndsWith(value.string, GeoPointClose)
            THEN LET geoPointContent == Slice(value.string, 9, -1)
                     parts == Split(geoPointContent, ",")
                     coords == [i \in 1..Len(parts) |-> ParseFloat(Trim(parts[i]))]
                 IN IF Len(coords) = 2 /\ ~IsNaN(coords[1]) /\ ~IsNaN(coords[2])
                    THEN [geoPointValue |->
                             [latitude |-> coords[1], longitude |-> coords[2]]]
                    ELSE Throw("Invalid GeoPoint format")
            ELSE [stringValue |-> value.string]
      [] value.type = "number" ->
            IF IsInteger(value.number) THEN [integerValue |-> value.number]
            ELSE [doubleValue |-> value.number]
      [] value.type = "boolean" -> [booleanValue |-> value.boolean]
      [] value.type = "array" ->
            LET values == [i \in 1..Len(value.elements) |->
                             ConvertValue(value.elements[i],
                                          before + TimestampsIn(value.elements, i - 1),
                                          times)]
            IN IF \E i \in 1..Len(values) : IsThrown(values[i])
               THEN FirstThrown(values)
               ELSE [arrayValue |-> [values |-> values]]
      [] OTHER ->
            LET converted == ConvertEntries(value.entries, before, times)
            IN IF IsThrown(converted) THEN converted
               ELSE [mapValue |-> converted]

\* for (const [key, val] of entries) fields[key] = convertValue(val)
ConvertEntries(entries, before, times) ==
    LET vals == [i \in 1..Len(entries) |-> entries[i].value]
        wires == [i \in 1..Len(entries) |->
                    ConvertValue(vals[i], before + TimestampsIn(vals, i - 1), times)]
    IN IF \E i \in 1..Len(wires) : IsThrown(wires[i])
       THEN FirstThrown(wires)
       ELSE [fields |-> Assign(entries, wires)]

\* convertToFirestoreFormat(doc): { fields }, or the exception thrown.
ConvertToFirestoreFormat(doc, times) == ConvertEntries(Entries(doc), 0, times)

\* ------------------------------------- the encoder's inputs (SpecEncode)
InteriorChars == {"1", ".", "-", ",", " ", "x"}

GeoStrings ==
    {GeoPointOpen \o interior \o GeoPointClose :
        interior \in SeqsUpTo(InteriorChars, MaxInterior)}

PlainStrings ==
    {TimestampSentinel, <<"h", "i">>, <<>>, TimestampSentinel \o <<" ">>,
     GeoPointOpen \o <<"1", ",", "1">>}

Leaves ==
    {Null, Bool(TRUE), Num(10), Num(15), Str(TimestampSentinel), Str(<<"h", "i">>)}

Scalars ==
    Leaves \cup {Bool(FALSE), Num(0), Num(-25)}
        \cup {Str(s) : s \in PlainStrings}
        \cup {Str(GeoPointOpen \o <<"1", ",", "1">> \o GeoPointClose),
              Str(GeoPointOpen \o <<"x">> \o GeoPointClose)}

Arrays(S) == {Arr(values) : values \in SeqsUpTo(S, MaxArray)}

Objects(S) ==
    {Obj(<<>>)} \cup {Obj(<<Entry(key, v)>>) : key \in {"a", "b"}, v \in S}
        \cup {Obj(<<Entry("a", v), Entry("b", w)>>) : v \in S, w \in S}

Containers(S) == Arrays(S) \cup Objects(S)

Values ==
    Scalars \cup Containers(Leaves)
        \cup {Arr(<<v>>) : v \in Containers(Leaves)}
        \cup {Obj(<<Entry("a", v)>>) : v \in Containers(Leaves)}

\* Documents as JSON.parse gives them: objects (a key may be "__proto__", an
\* own property of the parsed object) and, since parseJsonlFile lets arrays
\* through, an array.
Documents ==
    {Obj(<<>>), Arr(<<Num(10), Str(TimestampSentinel)>>)}
        \cup {Obj(<<Entry(key, v)>>) : key \in {"a", "__proto__"}, v \in Values}
        \cup {Obj(<<Entry(key, v), Entry("b", w)>>) :
                 key \in {"a", "__proto__"}, v \in Values,
                 w \in {Str(TimestampSentinel), Num(10)}}
        \cup {Obj(<<Entry("a", Str(s))>>) : s \in GeoStrings}

IdleEnc == [pc |-> "unused", document |-> Null, wire |-> Null]

\* ------------------------------------- CredentialStorage, instructions
\* A custom instruction is known by its id and its isDefault flag.
DefaultInstruction == [id |-> "default", isDefault |-> TRUE]

\* The ids saveCustomInstruction makes: `instr_${timestamp}_${random}`.
NewIds == {"instr_" \o ToString(n) : n \in 1..MaxInstructions}

\* instructions.findIndex(i => i.id === id), 1-based; 0 when there is none.
FindIndex(instructions, id) ==
    IF \E j \in 1..Len(instructions) : instructions[j].id = id
    THEN CHOOSE j \in 1..Len(instructions) :
             /\ instructions[j].id = id
             /\ \A m \in 1..(j - 1) : instructions[m].id # id
    ELSE 0

\* The list saveCustomInstruction writes: an instruction that has an id takes
\* the place of the stored one with that id or is appended; one without gets
\* the new id and is appended.
SaveCustomInstruction(instructions, instruction, hasId, newId) ==
    LET savedInstruction == IF hasId THEN instruction
                            ELSE [instruction EXCEPT !.id = newId]
        index == IF hasId THEN FindIndex(instructions, instruction.id) ELSE 0
    IN IF index > 0 THEN [instructions EXCEPT ![index] = savedInstruction]
       ELSE Append(instructions, savedInstruction)

\* deleteCustomInstruction without the test of isDefault.
DeleteAnyInstruction(instructions, id) ==
    [ok |-> TRUE, write |-> TRUE,
     items |-> SelectSeq(instructions, LAMBDA i : i.id # id)]

\* deleteCustomInstruction after it has read the list: what it returns,
\* whether it writes, and the list it writes.
DeleteCustomInstruction(instructions, id) ==
    LET index == FindIndex(instructions, id)
    IN IF index > 0 /\ instructions[index].isDefault
       THEN [ok |-> FALSE, write |-> FALSE, items |-> instructions]
       ELSE [ok |-> TRUE, write |-> TRUE,
             items |-> SelectSeq(instructions, LAMBDA i : i.id # id)]

\* setDefaultCustomInstruction after it has read the list.
SetDefaultCustomInstruction(instructions, id) ==
    LET cleared == [j \in 1..Len(instructions) |->
                       [instructions[j] EXCEPT !.isDefault = FALSE]]
        index == FindIndex(instructions, id)
    IN IF index > 0
       THEN [ok |-> TRUE, write |-> TRUE,
             items |-> [cleared EXCEPT ![index].isDefault = TRUE]]
       ELSE [ok |-> FALSE, write |-> FALSE, items |-> instructions]

\* A frame of the call stack: the method and its arguments.
Frame(fn, id, instruction, hasId) ==
    [fn |-> fn, id |-> id, instruction |-> instruction, hasId |-> hasId]

GetFrame == Frame("get", "", DefaultInstruction, FALSE)

NoResult == [op |-> "none", id |-> "", ok |-> FALSE, list |-> <<>>]

\* localStorage without the key, and no call running.  mode is where the
\* engine is: "call" when the top frame is at its first statement, "return"
\* when its callee has returned (list or ok holds the value), "throw" while
\* an exception is looking for a catch block.
IdleStore ==
    [stored |-> FALSE, items |-> <<>>, stack |-> <<>>, mode |-> "unused",
     list |-> <<>>, ok |-> FALSE, calls |-> 0, overflowed |-> FALSE,
     emptyAtCall |-> FALSE, result |-> NoResult]

\* ----------------------------------------------------------- credentials
PrivateKeys == {"pem_ok", "pem_no_footer", "pem_not_base64", "pem_import_fails"}

RequiredFields == {"type", "project_id", "private_key_id", "private_key",
                   "client_email", "client_id", "auth_uri", "token_uri"}

\* A field that is absent or empty reads as "" (falsy in the source).
CredentialRecords ==
    [type : {"service_account", "authorized_user", ""},
     project_id : {"set", ""}, private_key_id : {"set", ""},
     private_key : PrivateKeys \cup {""},
     client_email : {"set", ""}, client_id : {"set", ""},
     auth_uri : {"set", ""}, token_uri : {"set", ""}]

MissingFields(credentials) == {f \in RequiredFields : credentials[f] = ""}

ValidCredentials(credentials) ==
    MissingFields(credentials) = {} /\ credentials.type = "service_account"

NoCredentials ==
    [f \in RequiredFields |-> ""]

\* createSignedJWT checking the PEM footer only: any other key is taken as
\* signed.
SigningChecksFooterOnly(credentials) ==
    IF credentials.private_key = "pem_no_footer"
    THEN "Failed to create JWT: Invalid private key format: missing footer"
    ELSE ""

\* createSignedJWT: "" when the assertion is signed, else the error raised.
SigningError(credentials) ==
    CASE credentials.private_key = "pem_ok" -> ""
      [] credentials.private_key = "pem_no_footer" ->
            "Failed to create JWT: Invalid private key format: missing footer"
      [] credentials.private_key = "pem_not_base64" ->
            "Failed to create JWT: Invalid private key format: not valid base64"
      [] credentials.private_key = "pem_import_fails" ->
            "Failed to create JWT: DataError"
      [] OTHER -> "Failed to create JWT: TypeError"

\* ------------------------------------------------------------ data files
LineKinds == DocKinds \cup {"scalar", "invalid_json", "blank"}

\* content.trim().split('\n').filter(line => line.trim())
NonBlank(lines) == SelectSeq(lines, LAMBDA l : l # "blank")

\* parseJsonlFile: the documents pushed and the errors collected, line by line.
RECURSIVE ParseLines(_, _, _)
ParseLines(lines, index, acc) ==
    IF index > Len(lines) THEN acc
    ELSE LET line == lines[index]
         IN CASE line \in DocKinds ->
                   ParseLines(lines, index + 1,
                              [acc EXCEPT !.documents = Append(@, line)])
              [] line = "scalar" ->
                   ParseLines(lines, index + 1,
                              [acc EXCEPT !.errors = Append(@, <<index, "Expected JSON object">>)])
              [] OTHER ->
                   ParseLines(lines, index + 1,
                              [acc EXCEPT !.errors = Append(@, <<index, "Invalid JSON">>)])

\* parseJsonlFile: [error |-> text of the rejection or "", documents |-> list].
ParseJsonlFile(fileLines) ==
    LET lines == NonBlank(fileLines)
        parsed == ParseLines(lines, 1, [documents |-> <<>>, errors |-> <<>>])
    IN IF Len(lines) = 0 THEN [error |-> "Empty JSONL file", documents |-> <<>>]
       ELSE IF Len(parsed.errors) > 0
            THEN [error |-> "JSONL parsing errors", documents |-> <<>>]
       ELSE IF Len(parsed.documents) = 0
            THEN [error |-> "No valid documents found in JSONL file", documents |-> <<>>]
       ELSE [error |-> "", documents |-> parsed.documents]

\* A credentials file: unreadable, not JSON, or JSON holding a record.
CredentialFiles ==
    {[kind |-> "json", credentials |-> cr] : cr \in CredentialRecords}
    \cup {[kind |-> k, credentials |-> NoCredentials] : k \in {"unreadable", "invalid_json"}}

\* parseCredentialsFile without the test of the type.
ParseWithoutTypeCheck(file) ==
    CASE file.kind = "unreadable" -> "Failed to read file"
      [] file.kind = "invalid_json" -> "Invalid JSON file"
      [] MissingFields(file.credentials) # {} -> "Missing required fields"
      [] OTHER -> ""

\* parseCredentialsFile: the text of the rejection, or "" when it resolves.
ParseCredentialsFile(file) ==
    CASE file.kind = "unreadable" -> "Failed to read file"
      [] file.kind = "invalid_json" -> "Invalid JSON file"
      [] MissingFields(file.credentials) # {} -> "Missing required fields"
      [] file.credentials.type # "service_account" -> "Invalid credentials file"
      [] OTHER -> ""

\* validateCollectionName over the names the application is driven with.
CollectionNames == {"users", "a/b"}

ValidateCollectionName(name) ==
    IF name = "a/b" THEN "Collection name cannot contain slashes" ELSE ""

\* ------------------------------------------------------------ call state
IdleCall ==
    [pc |-> "idle", documents |-> <<>>, credentials |-> NoCredentials,
     token |-> "", i |-> 0, completed |-> 0, failed |-> 0,
     status |-> <<>>, response |-> <<>>, tokenStatus |-> "", error |-> "",
     posts |-> <<>>, bearer |-> <<>>, tokenPosts |-> 0, delays |-> 0,
     groups |-> <<>>]

AbsentCall == [IdleCall EXCEPT !.pc = "absent"]

NoErrors == [collection |-> "", credentials |-> "", data |-> "", upload |-> ""]

\* `again` is the position of a second run of handleUpload, started by a
\* second click on Start; it has none where the button is clicked once.
IdleApp == [pc |-> "idle", credentialsFile |-> [kind |-> "none", credentials |-> NoCredentials],
            dataFile |-> <<>>, errors |-> NoErrors, again |-> "absent"]

N(c) == Len(call[c].documents)

\* documents.slice(i): the slice without its end.
WholeList(i, n) == (i + 1)..n

\* A batch that takes the last document of the batch before it once more.
BatchWithRetry(i, n) == (IF i > 0 THEN i ELSE 1)..Min(i + batchSize, n)

\* documents.slice(i, i + batchSize), as 1-based positions of the list.
Batch(i, n) == (i + 1)..Min(i + batchSize, n)

\* The pacing test without the look-ahead: a delay after every group.
DelayAfterEachGroup(i, n) == i < n

\* i + batchSize < documents.length
MoreGroups(i, n) == i + batchSize < n

\* The number of a document counted inside its batch.
NumberInBatch(i, index) == index + 1

\* The 0-based index of a document in the whole list.
DocumentIndex(i, index) == i + index

\* i + index + 1, index being the position inside the batch.
DocumentNumber(i, index) == i + index + 1

Settled(st) == st \in {"ok", "failed"}

Thrown(c) == {k \in Batch(call[c].i, N(c)) : call[c].status[k] = "thrown"}

InFlight(c) == {k \in 1..N(c) : call[c].status[k] = "inflight"}

\* Continuing as soon as one promise of the group has settled.
GroupAnySettled(c) == \E k \in Batch(call[c].i, N(c)) : Settled(call[c].status[k])

\* Promise.all(promises) has resolved: every callback of the group has run.
GroupSettled(c) == \A k \in Batch(call[c].i, N(c)) : Settled(call[c].status[k])

\* A continuation of an already settled promise is waiting to run.
MicrotaskPending ==
    \/ \E c \in CallIds : call[c].pc = "uploading" /\ (Thrown(c) # {} \/ GroupSettled(c))
    \/ app.pc = "uploading" /\ call["c1"].pc \in {"resolved", "rejected"}
    \/ app.again = "uploading" /\ call["c2"].pc \in {"resolved", "rejected"}

\* Responses the network gives to a document write in this run.
Responses == {"ok"} \cup (IF env.failure = "none" THEN {} ELSE {env.failure})

ErrorText(response) ==
    IF response = "http_error" THEN "HTTP 500" ELSE "Failed to fetch"

Envs == {[order |-> "fifo", failure |-> "none"],
         [order |-> "any", failure |-> "http_error"],
         [order |-> "any", failure |-> "network_error"]}

\* ------------------------------------------------- uploadDocuments, steps
Info(text) == Message(text, 0, 0)

\* uploadDocuments up to its first suspension: setIsUploading(true), the
\* progress reset, the first log entries, and createSignedJWT started.
Begin(c, documents, credentials) ==
    LET L1 == AddLog(LogState, "info", Info("Getting access token for project"), NoDetails)
        L2 == AddLog(L1, "info", Info("Creating JWT for service account authentication"), NoDetails)
    IN /\ isUploading' = TRUE
       /\ progress' = [total |-> Len(documents), completed |-> 0, failed |-> 0,
                       percentage |-> 0]
       /\ logs' = L2.logs
       /\ emitted' = L2.emitted
       /\ call' = [call EXCEPT ![c] =
                     [IdleCall EXCEPT !.pc = "signing",
                                      !.documents = documents,
                                      !.credentials = credentials,
                                      !.status = [k \in 1..Len(documents) |-> "waiting"],
                                      !.response = [k \in 1..Len(documents) |-> "none"],
                                      !.posts = [k \in 1..Len(documents) |-> 0],
                                      !.bearer = [k \in 1..Len(documents) |-> ""]]]

\* The hook called directly (not through the application), with a credential
\* record its caller has validated.
UploadDocuments(c) ==
    /\ call[c].pc = "idle"
    /\ app.pc = "idle"
    /\ \E documents \in DocLists(IF env.order = "fifo" THEN MaxOrderlyDocs ELSE MaxDocs),
          credentials \in {cr \in CredentialRecords : ValidCredentials(cr)} :
          Begin(c, documents, credentials)
    /\ UNCHANGED <<clock, app, env, enc, store>>

\* The token request: fetch(tokenUrl, {method: 'POST', ...}).
RequestToken(r, L) ==
    [call |-> [r EXCEPT !.pc = "token", !.tokenPosts = @ + 1],
     L |-> AddLog(L, "info", Info("Requesting access token from Google OAuth"), NoDetails),
     isUploading |-> isUploading]

\* A pass of the loop that asks for a fresh token before every group but the
\* first.
StartGroupRefetching(r, i) ==
    LET n == Len(r.documents)
        issued == {k \in Batch(i, n) : ~EncodingFails(r.documents[k])}
    IN [r EXCEPT !.pc = "uploading",
                 !.i = i,
                 !.status = [k \in 1..n |->
                               IF k \in issued THEN "inflight"
                               ELSE IF k \in Batch(i, n) THEN "thrown"
                               ELSE @[k]],
                 !.posts = [k \in 1..n |-> IF k \in issued THEN @[k] + 1 ELSE @[k]],
                 !.bearer = [k \in 1..n |-> IF k \in issued THEN r.token ELSE @[k]],
                 !.tokenPosts = IF i > 0 THEN @ + 1 ELSE @,
                 !.groups = Append(@, Batch(i, n))]

\* A pass that issues the POST of every document of the batch, then encodes.
StartGroupPostsFirst(r, i) ==
    LET n == Len(r.documents)
        issued == {k \in Batch(i, n) : ~EncodingFails(r.documents[k])}
    IN [r EXCEPT !.pc = "uploading",
                 !.i = i,
                 !.status = [k \in 1..n |->
                               IF k \in issued THEN "inflight"
                               ELSE IF k \in Batch(i, n) THEN "thrown"
                               ELSE @[k]],
                 !.posts = [k \in 1..n |-> IF k \in Batch(i, n) THEN @[k] + 1 ELSE @[k]],
                 !.bearer = [k \in 1..n |-> IF k \in Batch(i, n) THEN r.token ELSE @[k]],
                 !.groups = Append(@, Batch(i, n))]

\* One pass of the loop body up to Promise.all: batch.map starts the callback
\* of every document of the batch; uploadDocument encodes the document and,
\* unless encoding throws, issues its POST with `Bearer ${accessToken}`.
StartGroup(r, i) ==
    LET n == Len(r.documents)
        issued == {k \in Batch(i, n) : ~EncodingFails(r.documents[k])}
    IN [r EXCEPT !.pc = "uploading",
                 !.i = i,
                 !.status = [k \in 1..n |->
                               IF k \in issued THEN "inflight"
                               ELSE IF k \in Batch(i, n) THEN "thrown"
                               ELSE @[k]],
                 !.posts = [k \in 1..n |-> IF k \in issued THEN @[k] + 1 ELSE @[k]],
                 !.bearer = [k \in 1..n |-> IF k \in issued THEN r.token ELSE @[k]],
                 !.groups = Append(@, Batch(i, n))]

\* The end of the call without the finally block.
FinishWithoutFinally(r, L) ==
    [call |-> [r EXCEPT !.pc = "resolved"],
     L |-> AddLog(L, "success", Message("Upload completed", r.completed, r.failed), NoDetails),
     isUploading |-> isUploading]

\* The closing entry counting every document as uploaded.
FinishReportsTotal(r, L) ==
    [call |-> [r EXCEPT !.pc = "resolved"],
     L |-> AddLog(L, "success", Message("Upload completed", Len(r.documents), 0), NoDetails),
     isUploading |-> FALSE]

\* After the loop: the closing log entry, then finally.
Finish(r, L) ==
    [call |-> [r EXCEPT !.pc = "resolved"],
     L |-> AddLog(L, "success", Message("Upload completed", r.completed, r.failed), NoDetails),
     isUploading |-> FALSE]

\* The loop entered without the entry that announces the upload.
EnterLoopUnannounced(r, L) ==
    LET n == Len(r.documents)
    IN IF 0 < n
       THEN [call |-> StartGroup(r, 0), L |-> L, isUploading |-> isUploading]
       ELSE Finish(r, L)

\* The code after `await getAccessToken(credentials)` up to the next suspension.
EnterLoop(r, L) ==
    LET n == Len(r.documents)
        L1 == AddLog(L, "info", Message("Starting upload of documents", n, 0), NoDetails)
    IN IF 0 < n
       THEN [call |-> StartGroup(r, 0), L |-> L1, isUploading |-> isUploading]
       ELSE Finish(r, L1)

\* getAccessToken's catch without the rethrow: the call goes on.
FatalSwallowed(r, L, message) ==
    EnterLoop(r, AddLog(L, "error", Info("Failed to get access token"), message))

\* The failure logged by uploadDocuments' catch alone.
FatalLogsOnce(r, L, message) ==
    [call |-> [r EXCEPT !.pc = "rejected", !.error = message],
     L |-> AddLog(L, "error", Info("Upload failed"), message),
     isUploading |-> FALSE]

\* getAccessToken's catch (log, rethrow), then uploadDocuments' catch (log,
\* rethrow) and finally (setIsUploading(false)).
Fatal(r, L, message) ==
    [call |-> [r EXCEPT !.pc = "rejected", !.error = message],
     L |-> AddLog(AddLog(L, "error", Info("Failed to get access token"), message),
                  "error", Info("Upload failed"), message),
     isUploading |-> FALSE]

\* createSignedJWT settles: the assertion, or the error it threw.
SignDone(c) ==
    /\ call[c].pc = "signing"
    /\ ~MicrotaskPending
    /\ LET message == SigningError(call[c].credentials)
           out == IF message = "" THEN RequestToken(call[c], LogState)
                  ELSE Fatal(call[c], LogState, message)
       IN /\ call' = [call EXCEPT ![c] = out.call]
          /\ logs' = out.L.logs
          /\ emitted' = out.L.emitted
          /\ isUploading' = out.isUploading
    /\ UNCHANGED <<progress, clock, app, env, enc, store>>

\* What the token request can end in: a 200 with a JSON body, a 200 whose
\* body response.json() cannot parse, a non-2xx status, a network failure.
TokenResponses == {"200", "200_not_json", "401", "network_error"}

TokenError(response) ==
    CASE response = "401" -> "OAuth failed (401)"
      [] response = "200_not_json" -> "Unexpected token in JSON"
      [] OTHER -> "Failed to fetch"

\* The token endpoint answers (or the request fails).
TokenResponse(c) ==
    /\ call[c].pc = "token"
    /\ ~MicrotaskPending
    /\ \E response \in TokenResponses :
          LET r == [call[c] EXCEPT !.tokenStatus = response]
              out ==
                IF response = "200"
                THEN EnterLoop([r EXCEPT !.token = "access_token"],
                               AddLog(LogState, "success",
                                      Info("Access token obtained successfully"), NoDetails))
                ELSE Fatal(r, LogState, TokenError(response))
          IN /\ call' = [call EXCEPT ![c] = out.call]
             /\ logs' = out.L.logs
             /\ emitted' = out.L.emitted
             /\ isUploading' = out.isUploading
    /\ UNCHANGED <<progress, clock, app, env, enc, store>>

\* --------------------------------------------- per-document callback
\* A failure that takes the rest of its group down with it.
FailureAbortsGroup(r, k) ==
    [r EXCEPT !.failed = @ + 1,
              !.status = [j \in DOMAIN @ |->
                            IF j = k \/ @[j] = "inflight" THEN "failed" ELSE @[j]]]

\* A failure counted twice.
FailureCountsTwice(r, k) ==
    [r EXCEPT !.failed = @ + 2, !.status[k] = "failed"]

\* A failure that rejects the whole call.
FailureRejectsCall(r, k) ==
    [r EXCEPT !.failed = @ + 1, !.status[k] = "failed", !.pc = "rejected"]

\* A failure counted on the counter the hook publishes, not on the call's own.
FailureOnSharedCounter(r, k) ==
    [r EXCEPT !.failed = progress.failed + 1, !.status[k] = "failed"]

\* catch (error) { failed++; ... }
CountFailure(r, k) ==
    [r EXCEPT !.failed = @ + 1, !.status[k] = "failed"]

\* completed++
CountSuccess(r, k) ==
    [r EXCEPT !.completed = @ + 1, !.status[k] = "ok"]

\* The callback of document k resumes after uploadDocument settled with
\* `response` ("ok", or the failure whose text is `text`): it counts, logs and
\* publishes the progress.
Settle(c, k, response, text) ==
    LET r == [call[c] EXCEPT !.response[k] = response]
        index == k - r.i - 1
        number == DocumentNumber(r.i, index)
        after == IF response = "ok" THEN CountSuccess(r, k) ELSE CountFailure(r, k)
        L == IF response = "ok"
             THEN AddLog(LogState, "success",
                         Message("Document uploaded successfully", number, 0), NoDetails)
             ELSE AddLog(LogState, "error",
                         Message("Failed to upload document", number, 0), text)
    IN /\ call' = [call EXCEPT ![c] = after]
       /\ logs' = L.logs
       /\ emitted' = L.emitted
       /\ progress' = SetProgress(progress, after.completed, after.failed,
                                  Len(r.documents))

\* A document whose encoding threw: its catch block runs as a microtask, in
\* the order the callbacks were started.
EncodingFailed(c) ==
    /\ call[c].pc = "uploading"
    /\ Thrown(c) # {}
    /\ LET k == CHOOSE j \in Thrown(c) : \A m \in Thrown(c) : j <= m
       IN Settle(c, k, "encoding_error", EncodingError)
    /\ UNCHANGED <<isUploading, clock, app, env, enc, store>>

\* The store answers the POST of document k (or the request fails).
WriteResponse(c) ==
    /\ call[c].pc = "uploading"
    /\ ~MicrotaskPending
    /\ \E k \in InFlight(c), response \in Responses :
          /\ env.order = "fifo" => \A j \in InFlight(c) : k <= j
          /\ Settle(c, k, response, ErrorText(response))
    /\ UNCHANGED <<isUploading, clock, app, env, enc, store>>

\* await Promise.all(promises) resumes: the pacing delay, or the loop ends.
GroupDone(c) ==
    /\ call[c].pc = "uploading"
    /\ Thrown(c) = {}
    /\ GroupSettled(c)
    /\ LET out == IF MoreGroups(call[c].i, N(c))
                  THEN [call |-> [call[c] EXCEPT !.pc = "delay", !.delays = @ + 1],
                        L |-> LogState, isUploading |-> isUploading]
                  ELSE Finish(call[c], LogState)
       IN /\ call' = [call EXCEPT ![c] = out.call]
          /\ logs' = out.L.logs
          /\ emitted' = out.L.emitted
          /\ isUploading' = out.isUploading
    /\ UNCHANGED <<progress, clock, app, env, enc, store>>

\* setTimeout(resolve, 200) fires: i += batchSize and the next pass starts.
DelayDone(c) ==
    /\ call[c].pc = "delay"
    /\ ~MicrotaskPending
    /\ call' = [call EXCEPT ![c] = StartGroup(call[c], call[c].i + batchSize)]
    /\ UNCHANGED <<isUploading, progress, logs, clock, app, env, emitted, enc, store>>

\* ------------------------------------------------------ App.handleUpload
\* The Start button is enabled only with a collection name, both files and
\* no upload running (canUpload), so handleUpload's checks for a missing file
\* cannot fail; validateCollectionName can.
HandleUpload ==
    /\ app.pc = "idle"
    /\ call["c1"].pc = "idle"
    /\ ~isUploading
    /\ \E name \in CollectionNames :
          LET collectionError == ValidateCollectionName(name)
          IN app' = IF collectionError # ""
                    THEN [app EXCEPT !.pc = "settled",
                                     !.errors = [NoErrors EXCEPT !.collection = collectionError]]
                    ELSE [app EXCEPT !.pc = "parsingCredentials", !.errors = NoErrors]
    /\ UNCHANGED <<isUploading, progress, logs, clock, call, env, emitted, enc, store>>

\* parseCredentialsFile settles; on rejection handleUpload's catch records it.
CredentialsParsed ==
    /\ app.pc = "parsingCredentials"
    /\ ~MicrotaskPending
    /\ \E file \in CredentialFiles :
          LET error == ParseCredentialsFile(file)
          IN app' = IF error # ""
                    THEN [app EXCEPT !.pc = "settled", !.credentialsFile = file,
                                     !.errors.upload = error]
                    ELSE [app EXCEPT !.pc = "parsingData", !.credentialsFile = file]
    /\ UNCHANGED <<isUploading, progress, logs, clock, call, env, emitted, enc, store>>

\* parseJsonlFile settles; on success handleUpload calls uploadDocuments.
DataParsed ==
    /\ app.pc = "parsingData"
    /\ ~MicrotaskPending
    /\ \E lines \in SeqsUpTo(LineKinds, MaxLines) :
          LET parsed == ParseJsonlFile(lines)
          IN IF parsed.error # ""
             THEN /\ app' = [app EXCEPT !.pc = "settled", !.dataFile = lines,
                                         !.errors.upload = parsed.error]
                  /\ UNCHANGED <<isUploading, progress, logs, call, emitted>>
             ELSE /\ app' = [app EXCEPT !.pc = "uploading", !.dataFile = lines]
                  /\ Begin("c1", parsed.documents, app.credentialsFile.credentials)
    /\ UNCHANGED <<clock, env, enc, store>>

\* await uploadDocuments(...) resumes in handleUpload.
UploadSettled ==
    /\ app.pc = "uploading"
    /\ call["c1"].pc \in {"resolved", "rejected"}
    /\ app' = [app EXCEPT !.pc = "settled",
                          !.errors.upload = IF call["c1"].pc = "rejected"
                                            THEN call["c1"].error ELSE @]
    /\ UNCHANGED <<isUploading, progress, logs, clock, call, env, emitted, enc, store>>

\* A second click on Start.  The button is disabled by !canUpload, that is
\* by isUploading, which the first run sets only inside uploadDocuments: the
\* click gets through while the first run is still reading its files.  The
\* collection name and the files are those of the first click.
HandleUploadAgain ==
    /\ app.again = "idle"
    /\ app.pc \in {"parsingCredentials", "parsingData", "uploading"}
    /\ ~isUploading
    /\ ~MicrotaskPending
    /\ app' = [app EXCEPT !.again = "parsingCredentials", !.errors = NoErrors]
    /\ UNCHANGED <<isUploading, progress, logs, clock, call, env, emitted, enc, store>>

\* parseCredentialsFile settles in the second run: the same file gives the
\* same result; the two reads of one file end in the order they were started.
CredentialsParsedAgain ==
    /\ app.again = "parsingCredentials"
    /\ app.credentialsFile.kind # "none"
    /\ ~MicrotaskPending
    /\ LET error == ParseCredentialsFile(app.credentialsFile)
       IN app' = IF error # ""
                 THEN [app EXCEPT !.again = "settled", !.errors.upload = error]
                 ELSE [app EXCEPT !.again = "parsingData"]
    /\ UNCHANGED <<isUploading, progress, logs, clock, call, env, emitted, enc, store>>

\* parseJsonlFile settles in the second run; on success it calls
\* uploadDocuments, whatever the first run is doing.
DataParsedAgain ==
    /\ app.again = "parsingData"
    /\ app.pc \in {"uploading", "settled"}
    /\ ~MicrotaskPending
    /\ LET parsed == ParseJsonlFile(app.dataFile)
       IN IF parsed.error # ""
          THEN /\ app' = [app EXCEPT !.again = "settled", !.errors.upload = parsed.error]
               /\ UNCHANGED <<isUploading, progress, logs, call, emitted>>
          ELSE /\ app' = [app EXCEPT !.again = "uploading"]
               /\ Begin("c2", parsed.documents, app.credentialsFile.credentials)
    /\ UNCHANGED <<clock, env, enc, store>>

\* await uploadDocuments(...) resumes in the second run.
UploadSettledAgain ==
    /\ app.again = "uploading"
    /\ call["c2"].pc \in {"resolved", "rejected"}
    /\ app' = [app EXCEPT !.again = "settled",
                          !.errors.upload = IF call["c2"].pc = "rejected"
                                            THEN call["c2"].error ELSE @]
    /\ UNCHANGED <<isUploading, progress, logs, clock, call, env, emitted, enc, store>>

\* ----------------------------------------------------------- specification
Init ==
    /\ isUploading = FALSE
    /\ progress = ZeroProgress
    /\ logs = <<>>
    /\ clock = 0
    /\ call = [c \in CallIds |-> IF c = "c1" THEN IdleCall ELSE AbsentCall]
    /\ app = IdleApp
    /\ env \in Envs
    /\ emitted = <<>>
    /\ enc = IdleEnc
    /\ store = IdleStore

Next ==
    \/ \E c \in CallIds : UploadDocuments(c)
    \/ \E c \in CallIds : SignDone(c)
    \/ \E c \in CallIds : TokenResponse(c)
    \/ \E c \in CallIds : EncodingFailed(c)
    \/ \E c \in CallIds : WriteResponse(c)
    \/ \E c \in CallIds : GroupDone(c)
    \/ \E c \in CallIds : DelayDone(c)
    \/ HandleUpload
    \/ CredentialsParsed
    \/ DataParsed
    \/ UploadSettled

Spec == Init /\ [][Next]_vars

\* Every pending promise settles and every timer fires: signing ends, the
\* token endpoint and the store answer (or the requests fail), the pacing
\* timer fires, and the event loop runs the continuations that are ready.
Continue ==
    \E c \in CallIds :
        \/ SignDone(c)
        \/ TokenResponse(c)
        \/ EncodingFailed(c)
        \/ WriteResponse(c)
        \/ GroupDone(c)
        \/ DelayDone(c)

Fairness == WF_vars(Continue)

\* The fair specification keeps one of the two kinds of failed write: both
\* take the same path through the code.
InitFair == Init /\ env.failure # "network_error"

SpecFair == InitFair /\ [][Next]_vars /\ Fairness

\* ------------------------------------------- addLog on its own (SpecLog)
\* Date.now() advances.
Tick ==
    /\ clock < MaxTicks
    /\ Len(emitted) < FreeEmits
    /\ clock' = clock + 1
    /\ UNCHANGED <<isUploading, progress, logs, call, app, env, emitted, enc, store>>

\* One addLog call; the entry's message carries its ordinal.
EmitLog ==
    /\ Len(emitted) < LogCap + ExtraEmits
    /\ \E type \in (IF Len(emitted) < FreeEmits THEN LogTypes ELSE {"info"}) :
          LET L == AddLog(LogState, type, Message("entry", Len(emitted) + 1, 0), NoDetails)
          IN logs' = L.logs /\ emitted' = L.emitted
    /\ UNCHANGED <<isUploading, progress, clock, call, app, env, enc, store>>

InitLog ==
    /\ isUploading = FALSE
    /\ progress = ZeroProgress
    /\ logs = <<>>
    /\ clock = 0
    /\ call = [c \in CallIds |-> AbsentCall]
    /\ app = [IdleApp EXCEPT !.pc = "unused"]
    /\ env = [order |-> "fifo", failure |-> "none"]
    /\ emitted = <<>>
    /\ enc = IdleEnc
    /\ store = IdleStore

NextLog ==
    \/ EmitLog
    \/ Tick

SpecLog == InitLog /\ [][NextLog]_vars

\* ------------------------------------------- long document lists (SpecLong)
LongLengths == {TieDocs} \cup ((LogCap - 1)..(LogCap + ExtraDocs))

\* Per length, the list of plain objects and the list whose last document
\* holds a malformed GeoPoint sentinel.
LongLists ==
    UNION {{[k \in 1..len |-> "object"],
            [k \in 1..len |-> IF k = len THEN "malformed_geopoint" ELSE "object"]}
           : len \in LongLengths}

ServiceAccount ==
    [type |-> "service_account", project_id |-> "set", private_key_id |-> "set",
     private_key |-> "pem_ok", client_email |-> "set", client_id |-> "set",
     auth_uri |-> "set", token_uri |-> "set"]

\* The hook called directly with a long list.
UploadLongList(c) ==
    /\ call[c].pc = "idle"
    /\ \E documents \in LongLists : Begin(c, documents, ServiceAccount)
    /\ UNCHANGED <<clock, app, env, enc, store>>

InitLong ==
    /\ isUploading = FALSE
    /\ progress = ZeroProgress
    /\ logs = <<>>
    /\ clock = 0
    /\ call = [c \in CallIds |-> IF c = "c1" THEN IdleCall ELSE AbsentCall]
    /\ app = [IdleApp EXCEPT !.pc = "unused"]
    /\ env = [order |-> "fifo", failure |-> "none"]
    /\ emitted = <<>>
    /\ enc = IdleEnc
    /\ store = IdleStore

NextLong ==
    \/ \E c \in CallIds : UploadLongList(c)
    \/ \E c \in CallIds : SignDone(c)
    \/ \E c \in CallIds : TokenResponse(c)
    \/ \E c \in CallIds : EncodingFailed(c)
    \/ \E c \in CallIds : WriteResponse(c)
    \/ \E c \in CallIds : GroupDone(c)
    \/ \E c \in CallIds : DelayDone(c)

SpecLong == InitLong /\ [][NextLong]_vars

\* ------------------------- CredentialStorage on its own (SpecStore)
\* The stack once a component has called a method of CredentialStorage.
Called(frame) ==
    [store EXCEPT !.stack = <<frame>>, !.mode = "call", !.calls = 1,
                  !.overflowed = FALSE, !.emptyAtCall = ~store.stored,
                  !.result = NoResult]

\* The settings panel loads the instructions.
CallGetCustomInstructions ==
    /\ store.mode = "idle"
    /\ store' = Called(GetFrame)
    /\ UNCHANGED <<isUploading, progress, logs, clock, call, app, env, emitted, enc>>

\* handleSaveCustomInstruction: an instruction without id, isDefault false.
CallSaveCustomInstruction ==
    /\ store.mode = "idle"
    /\ Len(store.items) <= MaxInstructions
    /\ \E newId \in NewIds :
          /\ FindIndex(store.items, newId) = 0
          /\ store' = Called(Frame("save", newId, [id |-> "", isDefault |-> FALSE], FALSE))
    /\ UNCHANGED <<isUploading, progress, logs, clock, call, app, env, emitted, enc>>

\* handleDeleteCustomInstruction, with any id.
CallDeleteCustomInstruction ==
    /\ store.mode = "idle"
    /\ \E id \in {"default"} \cup NewIds :
          store' = Called(Frame("delete", id, DefaultInstruction, FALSE))
    /\ UNCHANGED <<isUploading, progress, logs, clock, call, app, env, emitted, enc>>

\* handleSetDefaultInstruction, with any id.
CallSetDefaultCustomInstruction ==
    /\ store.mode = "idle"
    /\ \E id \in {"default"} \cup NewIds :
          store' = Called(Frame("setDefault", id, DefaultInstruction, FALSE))
    /\ UNCHANGED <<isUploading, progress, logs, clock, call, app, env, emitted, enc>>

\* The top frame calls a method: a new frame, or a RangeError when the stack
\* has no room for it.
Invoke(frame) ==
    IF Len(store.stack) < StackLimit
    THEN [store EXCEPT !.stack = Append(@, frame), !.mode = "call", !.calls = @ + 1]
    ELSE [store EXCEPT !.mode = "throw", !.overflowed = TRUE]

\* The top frame returns to its caller, or to the component.
Return(s, list, ok) ==
    LET top == s.stack[Len(s.stack)]
        rest == SubSeq(s.stack, 1, Len(s.stack) - 1)
    IN [s EXCEPT !.stack = rest, !.list = list, !.ok = ok,
                 !.mode = IF rest = <<>> THEN "idle" ELSE "return",
                 !.result = IF rest = <<>>
                            THEN [op |-> top.fn, id |-> top.id, ok |-> ok, list |-> list]
                            ELSE @]

\* localStorage.setItem(CUSTOM_INSTRUCTIONS, JSON.stringify(items))
SetItem(s, items) == [s EXCEPT !.stored = TRUE, !.items = items]

\* The first statement of the top frame.  getCustomInstructions reads the
\* key: without it, it calls saveCustomInstruction(defaultInstruction), with
\* it, it returns the parsed list.  The other methods call
\* getCustomInstructions.
Enter ==
    /\ store.mode = "call"
    /\ LET top == store.stack[Len(store.stack)]
       IN store' =
            IF top.fn = "get"
            THEN IF ~store.stored
                 THEN Invoke(Frame("save", "default", DefaultInstruction, TRUE))
                 ELSE Return(store, store.items, FALSE)
            ELSE Invoke(GetFrame)
    /\ UNCHANGED <<isUploading, progress, logs, clock, call, app, env, emitted, enc>>

\* The call made by the top frame has returned.
Resume ==
    /\ store.mode = "return"
    /\ LET top == store.stack[Len(store.stack)]
           instructions == store.list
       IN store' =
            CASE top.fn = "get" -> Return(store, <<DefaultInstruction>>, FALSE)
              [] top.fn = "save" ->
                    Return(SetItem(store, SaveCustomInstruction(instructions, top.instruction,
                                                               top.hasId, top.id)),
                           <<>>, TRUE)
              [] top.fn = "delete" ->
                    LET out == DeleteCustomInstruction(instructions, top.id)
                    IN Return(IF out.write THEN SetItem(store, out.items) ELSE store,
                              <<>>, out.ok)
              [] OTHER ->
                    LET out == SetDefaultCustomInstruction(instructions, top.id)
                    IN Return(IF out.write THEN SetItem(store, out.items) ELSE store,
                              <<>>, out.ok)
    /\ UNCHANGED <<isUploading, progress, logs, clock, call, app, env, emitted, enc>>

\* The catch block of the top frame: getCustomInstructions returns [], the
\* other methods return false.
Catch ==
    /\ store.mode = "throw"
    /\ store' = Return(store, <<>>, FALSE)
    /\ UNCHANGED <<isUploading, progress, logs, clock, call, app, env, emitted, enc>>

\* The catch block itself calls console.error: on a full stack that call may
\* throw in its turn, and the exception goes on to the caller's catch block.
CatchOverflows ==
    /\ store.mode = "throw"
    /\ Len(store.stack) = StackLimit
    /\ store' = [store EXCEPT !.stack = SubSeq(@, 1, Len(@) - 1)]
    /\ UNCHANGED <<isUploading, progress, logs, clock, call, app, env, emitted, enc>>

InitStore ==
    /\ isUploading = FALSE
    /\ progress = ZeroProgress
    /\ logs = <<>>
    /\ clock = 0
    /\ call = [c \in CallIds |-> AbsentCall]
    /\ app = [IdleApp EXCEPT !.pc = "unused"]
    /\ env = [order |-> "fifo", failure |-> "none"]
    /\ emitted = <<>>
    /\ enc = IdleEnc
    /\ store = [IdleStore EXCEPT !.mode = "idle"]

NextStore ==
    \/ CallGetCustomInstructions
    \/ CallSaveCustomInstruction
    \/ CallDeleteCustomInstruction
    \/ CallSetDefaultCustomInstruction
    \/ Enter
    \/ Resume
    \/ Catch
    \/ CatchOverflows

SpecStore == InitStore /\ [][NextStore]_vars

\* ------------------------------- Start clicked twice (SpecClicks)
InitClicks ==
    /\ isUploading = FALSE
    /\ progress = ZeroProgress
    /\ logs = <<>>
    /\ clock = 0
    /\ call = [c \in CallIds |-> IdleCall]
    /\ app = [IdleApp EXCEPT !.again = "idle"]
    /\ env \in {e \in Envs : e.failure # "network_error"}
    /\ emitted = <<>>
    /\ enc = IdleEnc
    /\ store = IdleStore

\* A data file of MaxLines lines is a single group: the pacing timer is never
\* set.
NextClicks ==
    \/ HandleUpload
    \/ CredentialsParsed
    \/ DataParsed
    \/ UploadSettled
    \/ HandleUploadAgain
    \/ CredentialsParsedAgain
    \/ DataParsedAgain
    \/ UploadSettledAgain
    \/ \E c \in CallIds : SignDone(c)
    \/ \E c \in CallIds : TokenResponse(c)
    \/ \E c \in CallIds : EncodingFailed(c)
    \/ \E c \in CallIds : WriteResponse(c)
    \/ \E c \in CallIds : GroupDone(c)

SpecClicks == InitClicks /\ [][NextClicks]_vars

\* ----------------------------------- two calls on one hook (SpecTwo)
\* The lists of the two calls: every short list when the responses come in
\* any order; one document, or a list of more than one group whose last
\* document fails, when they come in the order of the requests.
OverlapLists ==
    IF env.order = "fifo"
    THEN {<<"object">>,
          [k \in 1..MaxOverlapOrderly |->
              IF k = MaxOverlapOrderly THEN "malformed_geopoint" ELSE "object"]}
    ELSE DocLists(MaxOverlapDocs)

\* uploadDocuments called on the hook, also while another call is running.
UploadOverlapping(c) ==
    /\ call[c].pc = "idle"
    /\ \E documents \in OverlapLists : Begin(c, documents, ServiceAccount)
    /\ UNCHANGED <<clock, app, env, enc, store>>

InitTwo ==
    /\ isUploading = FALSE
    /\ progress = ZeroProgress
    /\ logs = <<>>
    /\ clock = 0
    /\ call = [c \in CallIds |-> IdleCall]
    /\ app = [IdleApp EXCEPT !.pc = "unused"]
    /\ env \in {e \in Envs : e.failure # "network_error"}
    /\ emitted = <<>>
    /\ enc = IdleEnc
    /\ store = IdleStore

NextTwo ==
    \/ \E c \in CallIds : UploadOverlapping(c)
    \/ \E c \in CallIds : SignDone(c)
    \/ \E c \in CallIds : TokenResponse(c)
    \/ \E c \in CallIds : EncodingFailed(c)
    \/ \E c \in CallIds : WriteResponse(c)
    \/ \E c \in CallIds : GroupDone(c)
    \/ \E c \in CallIds : DelayDone(c)

SpecTwo == InitTwo /\ [][NextTwo]_vars

\* ------------------------------- convertToFirestoreFormat on its own
\* The clock readings of `count` successive evaluations of `new Date()`: the
\* clock does not go back, and it may advance between two of them.
ReadingSeqs(count) ==
    {times \in [1..count -> clock..(clock + MaxTicks)] :
        \A j \in 1..(count - 1) : times[j] <= times[j + 1]}

\* One call of convertToFirestoreFormat.
ConvertDocument ==
    /\ enc.pc = "ready"
    /\ \E times \in ReadingSeqs(Timestamps(enc.document)) :
          /\ enc' = [enc EXCEPT !.pc = "done",
                                !.wire = ConvertToFirestoreFormat(enc.document, times)]
          /\ clock' = IF times = <<>> THEN clock ELSE times[Len(times)]
    /\ UNCHANGED <<isUploading, progress, logs, call, app, env, emitted, store>>

InitEncode ==
    /\ isUploading = FALSE
    /\ progress = ZeroProgress
    /\ logs = <<>>
    /\ clock = 0
    /\ call = [c \in CallIds |-> AbsentCall]
    /\ app = [IdleApp EXCEPT !.pc = "unused"]
    /\ env = [order |-> "fifo", failure |-> "none"]
    /\ emitted = <<>>
    /\ enc \in {[pc |-> "ready", document |-> d, wire |-> Null] : d \in Documents}
    /\ store = IdleStore

NextEncode == ConvertDocument

SpecEncode == InitEncode /\ [][NextEncode]_vars

\* ------------------------------------------------------------------ claims
Started(c) == call[c].pc \notin {"absent", "idle"}

TokenAcquired(c) == call[c].pc \in {"uploading", "delay", "resolved"}

GroupOf(k) == (k - 1) \div batchSize

CountType(log, type) == Cardinality({j \in 1..Len(log) : log[j].type = type})

\* C1: in a call whose token acquisition succeeded, every published progress
\* snapshot has completed + failed <= total, and once the call has resolved
\* completed + failed equals the number of documents passed to the call.
C1_CountersAddUp ==
    \A c \in CallIds :
        TokenAcquired(c) =>
            /\ progress.completed + progress.failed <= progress.total
            /\ progress.completed = call[c].completed
            /\ progress.failed = call[c].failed
            /\ call[c].pc = "resolved" =>
                   progress.completed + progress.failed = Len(call[c].documents)

C1_Witness ==
    /\ call["c1"].pc = "resolved"
    /\ Len(call["c1"].documents) = 6
    /\ progress.completed = 4
    /\ progress.failed = 2

\* C2: when signing the assertion or the token exchange fails, the call
\* rejects, no document write request was issued and completed and failed
\* are still 0.
C2_FatalBeforeAnyWrite ==
    \A c \in CallIds :
        /\ (Started(c) /\ call[c].pc # "signing"
              /\ SigningError(call[c].credentials) # "") => call[c].pc = "rejected"
        /\ call[c].tokenStatus \in {"401", "200_not_json", "network_error"} =>
              call[c].pc = "rejected"
        /\ call[c].pc = "rejected" =>
              /\ \A k \in 1..Len(call[c].documents) :
                     call[c].posts[k] = 0 /\ call[c].status[k] = "waiting"
              /\ call[c].completed = 0 /\ call[c].failed = 0
              /\ progress.completed = 0 /\ progress.failed = 0

C2_Witness ==
    /\ call["c1"].pc = "rejected"
    /\ call["c1"].tokenStatus = "network_error"
    /\ Len(call["c1"].documents) = 3

\* C3: a document that fails (encoding error, non-2xx response, network
\* error) adds exactly 1 to failed and nothing to completed, leaves every other
\* document's outcome as it is and as its own encoding and response decide
\* it, and the call never rejects because of it.
C3_FailureStep ==
    \A c \in CallIds :
        \A k \in 1..Len(call[c].documents) :
            (call[c].status[k] \in {"inflight", "thrown"} /\ call'[c].status[k] = "failed") =>
                /\ call'[c].failed = call[c].failed + 1
                /\ call'[c].completed = call[c].completed
                /\ progress'.failed = progress.failed + 1
                /\ progress'.completed = progress.completed
                /\ call'[c].pc = "uploading"
                /\ \A j \in 1..Len(call[c].documents) :
                       j # k => call'[c].status[j] = call[c].status[j]

C3_OwnOutcome ==
    \A c \in CallIds :
        /\ TokenAcquired(c) => call[c].error = ""
        /\ call[c].pc = "rejected" => call[c].failed = 0
        /\ \A k \in 1..Len(call[c].documents) :
              /\ call[c].status[k] = "ok" <=>
                     (~EncodingFails(call[c].documents[k]) /\ call[c].response[k] = "ok")
              /\ call[c].status[k] = "failed" <=>
                     call[c].response[k] \in {"encoding_error", "http_error", "network_error"}
              /\ call[c].pc = "resolved" => Settled(call[c].status[k])

\* C3: every step that fails a document is as C3_FailureStep says, and every
\* document's outcome is always the one its own encoding and response decide.
C3_FailureIsolated == []C3_OwnOutcome /\ [][C3_FailureStep]_vars

C3_Witness ==
    /\ call["c1"].pc = "resolved"
    /\ Len(call["c1"].documents) = 6
    /\ call["c1"].response[2] = "encoding_error"
    /\ call["c1"].response[1] = "http_error"
    /\ call["c1"].status[3] = "ok"
    /\ call["c1"].status[6] = "ok"
    /\ call["c1"].failed = 2

\* C4: groups are taken in index order with a barrier between them: a write
\* request of a document of a later group exists only once every document of
\* every earlier group has settled, whatever the order of the completions.
C4_GroupBarrier ==
    \A c \in CallIds :
        /\ \A m \in 1..Len(call[c].groups) :
              call[c].groups[m] = {k \in 1..Len(call[c].documents) : GroupOf(k) = m - 1}
        /\ \A k, j \in 1..Len(call[c].documents) :
              (GroupOf(j) < GroupOf(k) /\ call[c].status[k] # "waiting") =>
                  Settled(call[c].status[j])

C4_Witness ==
    /\ env.order = "any"
    /\ Len(call["c1"].documents) = 6
    /\ call["c1"].pc = "uploading"
    /\ call["c1"].status[6] = "inflight"
    /\ logs[1].message = Message("Document uploaded successfully", 1, 0)
    /\ logs[5].message = Message("Failed to upload document", 4, 0)

\* C5: at most 5 document write requests are in flight at any moment, and
\* requests in flight together belong to the same group.
C5_BoundedInFlight ==
    \A c \in CallIds :
        /\ Cardinality(InFlight(c)) <= 5
        /\ \A k, j \in InFlight(c) : GroupOf(k) = GroupOf(j)
        /\ \A k \in 1..Len(call[c].documents) :
              call[c].posts[k] = (IF call[c].status[k] \in {"inflight", "ok"}
                                     \/ call[c].response[k] \in {"http_error", "network_error"}
                                  THEN 1 ELSE 0)

C5_Witness ==
    /\ Len(call["c1"].documents) = 6
    /\ Cardinality(InFlight("c1")) = 5

\* C6: n documents are taken in ceil(n/5) groups of consecutive documents,
\* each of 5 documents except possibly the last, with one pacing delay per
\* group boundary: ceil(n/5) - 1 delays for n > 0 and none after the last
\* group; no group and no delay for n = 0.
C6_GroupsAndDelays ==
    \A c \in CallIds :
        LET n == Len(call[c].documents)
            g == call[c].groups
        IN /\ \A m \in 1..Len(g) :
                 /\ g[m] = (5 * (m - 1) + 1)..Min(5 * m, n)
                 /\ m < Len(g) => Cardinality(g[m]) = 5
                 /\ Cardinality(g[m]) >= 1
           /\ call[c].delays = (IF call[c].pc = "delay" THEN Len(g)
                                ELSE IF Len(g) > 0 THEN Len(g) - 1 ELSE 0)
           /\ call[c].pc = "resolved" =>
                 /\ Len(g) = (n + 4) \div 5
                 /\ call[c].delays = (IF n > 0 THEN ((n + 4) \div 5) - 1 ELSE 0)

C6_Witness ==
    /\ call["c1"].pc = "resolved"
    /\ Len(call["c1"].documents) = 12
    /\ call["c1"].groups = <<1..5, 6..10, 11..12>>
    /\ call["c1"].delays = 2

\* C7: within one call the published percentage never decreases from one
\* snapshot to the next, and once the call has resolved it is 100 if
\* total > 0 and 0 if total = 0.
C7_Step ==
    \A c \in CallIds : Started(c) => progress'.percentage >= progress.percentage

C7_AtResolution ==
    \A c \in CallIds :
        call[c].pc = "resolved" =>
            progress.percentage = (IF progress.total > 0 THEN 100 ELSE 0)

\* C7: the percentage never decreases within a call and is 100 (total > 0) or
\* 0 (total = 0) once the call has resolved.
C7_PercentageMonotone == []C7_AtResolution /\ [][C7_Step]_vars

C7_Witness ==
    /\ call["c1"].pc = "resolved"
    /\ progress.total = 6
    /\ progress.failed = 3
    /\ progress.percentage = 100

\* C8 as stated: after the token endpoint answered 401 the call has rejected
\* and the log holds exactly one entry of kind error and none of kind success.
C8_OneErrorEntry ==
    \A c \in CallIds :
        call[c].tokenStatus = "401" =>
            /\ call[c].pc = "rejected"
            /\ CountType(logs, "error") = 1
            /\ CountType(logs, "success") = 0

\* C8, amended: after the token endpoint answered 401 the call has rejected
\* and has emitted exactly two entries of kind error, "Failed to get access
\* token" and then "Upload failed", both carrying the OAuth failure text, and
\* no entry of kind success.
C8_TwoErrorEntries ==
    \A c \in CallIds :
        call[c].tokenStatus = "401" =>
            /\ call[c].pc = "rejected"
            /\ LET errors == SelectSeq(emitted, LAMBDA e : e.type = "error")
               IN /\ Len(errors) = 2
                  /\ errors[1].message = Info("Failed to get access token")
                  /\ errors[2].message = Info("Upload failed")
                  /\ errors[1].details = "OAuth failed (401)"
                  /\ errors[2].details = "OAuth failed (401)"
            /\ logs[1].message = Info("Upload failed")
            /\ CountType(emitted, "success") = 0

C8_Witness ==
    /\ call["c1"].tokenStatus = "401"
    /\ call["c1"].pc = "rejected"
    /\ CountType(logs, "error") = 2

\* C9: a credential record that misses project id, client email, private key
\* or token URI, or whose type is not "service_account", makes the upload
\* started by the application fail before any network call: the error is
\* recorded, uploadDocuments is not entered, completed and failed are 0.
MissesRequired(credentials) ==
    \/ credentials.project_id = ""
    \/ credentials.client_email = ""
    \/ credentials.private_key = ""
    \/ credentials.token_uri = ""
    \/ credentials.type # "service_account"

C10_NewestHundred ==
    LET n == Len(emitted)
    IN /\ Len(logs) = Min(n, 100)
       /\ \A j \in 1..Len(logs) : logs[j] = emitted[n - j + 1]

C10_Witness ==
    /\ Len(emitted) = 103
    /\ Len(logs) = 100
    /\ logs[1].message.a = 103
    /\ logs[100].message.a = 4

\* Log entries about the document at position k.
DocEntries(log, k) ==
    {j \in 1..Len(log) :
        /\ log[j].message.text \in {"Document uploaded successfully",
                                    "Failed to upload document"}
        /\ log[j].message.a = k}

\* The text a failed document's entry carries in its details.
Reason(response) ==
    IF response = "encoding_error" THEN EncodingError ELSE ErrorText(response)

\* Entry e tells the outcome of document k of call c.
TellsOutcome(e, c, k) ==
    \/ call[c].status[k] = "ok" /\ e.type = "success" /\ e.details = NoDetails
    \/ /\ call[c].status[k] = "failed" /\ e.type = "error"
       /\ e.details = Reason(call[c].response[k])

Logged(c) == {k \in 1..N(c) : DocEntries(logs, k) # {}}

\* C11 as stated: when a call resolves, the log holds for every position
\* 1..n an entry telling that document's outcome.
C11_EveryPositionLogged ==
    \A c \in CallIds :
        call[c].pc = "resolved" =>
            \A k \in 1..N(c) : \E j \in DocEntries(logs, k) : TellsOutcome(logs[j], c, k)

\* C11: when a call that ran alone on an empty log resolves, the log holds the
\* closing entry and the entries of the min(n, 99) documents settled last, one
\* per position, each telling that document's outcome; it holds every position
\* only when n <= 99.
C11_NewestPositionsLogged ==
    \A c \in CallIds :
        call[c].pc = "resolved" =>
            /\ Cardinality(Logged(c)) = Min(N(c), LogCap - 1)
            /\ \A k \in Logged(c) :
                   /\ Cardinality(DocEntries(logs, k)) = 1
                   /\ \A j \in DocEntries(logs, k) : TellsOutcome(logs[j], c, k)
            /\ logs[1].message.text = "Upload completed"

C11_Witness ==
    /\ call["c1"].pc = "resolved"
    /\ N("c1") = LogCap
    /\ call["c1"].status[LogCap] = "failed"
    /\ 1 \notin Logged("c1")
    /\ Logged("c1") = 2..LogCap

\* A step never replaces a token the call holds.
C12_TokenKept ==
    \A c \in CallIds : call[c].token # "" => call'[c].token = call[c].token

C12_OneExchange ==
    \A c \in CallIds :
        /\ call[c].tokenPosts <= 1
        /\ TokenAcquired(c) => call[c].tokenPosts = 1
        /\ \A k \in 1..N(c) :
               call[c].posts[k] > 0 =>
                   /\ call[c].tokenPosts = 1
                   /\ call[c].tokenStatus = "200"
                   /\ call[c].token # ""
                   /\ call[c].bearer[k] = call[c].token

\* C12: a call sends at most one token request, exactly one once it writes; a
\* document write is sent only after the token request was answered with a
\* token and carries that token; the call never replaces its token nor sends
\* a second token request, whatever the writes end in.
C12_TokenOncePerCall == []C12_OneExchange /\ [][C12_TokenKept]_vars

C12_Witness ==
    /\ call["c1"].pc = "resolved"
    /\ N("c1") = 6
    /\ call["c1"].response[2] = "http_error"
    /\ call["c1"].bearer[6] = call["c1"].token
    /\ call["c1"].posts[6] = 1
    /\ call["c1"].tokenPosts = 1

\* The states of the specification's state machine, by position in the code.
Phase(pc) ==
    CASE pc \in {"absent", "idle"} -> "Idle"
      [] pc \in {"signing", "token"} -> "TokenAcquisition"
      [] pc \in {"uploading", "delay"} -> "Uploading"
      [] pc = "resolved" -> "Completed"
      [] OTHER -> "Aborted"

\* With no documents the loop has no pass: the code runs from the token's
\* arrival to the closing entry in one go (Uploading with zero groups).
C13_Step ==
    \A c \in CallIds :
        LET from == Phase(call[c].pc)
            to == Phase(call'[c].pc)
        IN /\ \/ from = to
              \/ from = "Idle" /\ to = "TokenAcquisition"
              \/ from = "TokenAcquisition" /\ to \in {"Aborted", "Uploading"}
              \/ from = "TokenAcquisition" /\ to = "Completed" /\ N(c) = 0
              \/ from = "Uploading" /\ to = "Completed"
           /\ call[c].groups # <<>> => to \in {"Uploading", "Completed"}
           /\ to = "Uploading" =>
                  call'[c].tokenStatus = "200" /\ call'[c].token # ""

C13_Phases ==
    \A c \in CallIds :
        /\ Phase(call[c].pc) \in {"Uploading", "Completed"} =>
               call[c].tokenStatus = "200" /\ call[c].token # ""
        /\ Phase(call[c].pc) = "Aborted" =>
               /\ call[c].groups = <<>>
               /\ \A k \in 1..N(c) : call[c].posts[k] = 0
        /\ Phase(call[c].pc) = "Completed" =>
               \A k \in 1..N(c) : Settled(call[c].status[k])

\* C13: a call moves only Idle -> TokenAcquisition -> (Aborted | Uploading),
\* Uploading -> Uploading -> Completed; it is in Uploading or Completed only
\* with a token the token endpoint returned, it is in Aborted only with no
\* group started and no write issued, and after its first group has started
\* it stays in Uploading until it is Completed.
C13_StateMachine == []C13_Phases /\ [][C13_Step]_vars

C13_Witness ==
    /\ call["c1"].pc = "resolved"
    /\ Len(call["c1"].groups) = 2
    /\ call["c1"].failed = 2
    /\ call["c1"].delays = 1

Ended(c) == call[c].pc \in {"resolved", "rejected"}

C14_UploadingWhileRunning ==
    \A c \in CallIds :
        /\ Started(c) => (isUploading <=> ~Ended(c))
        /\ call[c].pc = "resolved" =>
               \A k \in 1..N(c) : Settled(call[c].status[k])
        /\ call[c].pc = "rejected" =>
               call[c].groups = <<>> /\ call[c].error # ""

\* C14: when every request and every timer settles, a started call eventually
\* resolves with every document of every group attempted, or rejects on a
\* failure before the first group; isUploading is true from the start of the
\* call until it ends and false once it has ended.
C14_CallEnds ==
    /\ \A c \in CallIds : Started(c) ~> Ended(c)
    /\ []C14_UploadingWhileRunning

C14_Witness ==
    /\ call["c1"].pc = "resolved"
    /\ ~isUploading
    /\ N("c1") = 6
    /\ Len(call["c1"].groups) = 2
    /\ call["c1"].failed = 1

BadKeys == {"pem_no_footer", "pem_not_base64", "pem_import_fails"}

NoRequestSent(c) ==
    /\ call[c].tokenPosts = 0
    /\ call[c].tokenStatus = ""
    /\ \A k \in 1..N(c) : call[c].posts[k] = 0

\* C19: while the assertion is being built and signed no request has been
\* sent, and a call whose private key lacks the PEM footer, is not base64, or
\* fails to import or sign rejects without having sent the token request or
\* any document write.
C19_SigningSendsNothing ==
    \A c \in CallIds :
        /\ call[c].pc = "signing" => NoRequestSent(c)
        /\ (Started(c) /\ call[c].pc # "signing"
              /\ call[c].credentials.private_key \in BadKeys) =>
               /\ call[c].pc = "rejected"
               /\ call[c].error = SigningError(call[c].credentials)
               /\ NoRequestSent(c)

C19_Witness ==
    /\ call["c1"].pc = "rejected"
    /\ call["c1"].credentials.private_key = "pem_not_base64"
    /\ N("c1") = 4
    /\ call["c1"].tokenPosts = 0
    /\ ~isUploading

\* Lines that are not blank and do not hold a JSON object.
NonObjectLines == {"scalar", "invalid_json", "array"}

\* C18 as stated: a data file with a line that fails to parse or parses to a
\* number, string, boolean, null or array is rejected with the collected
\* errors, and no document list made from it is handed to the upload.
C18_NonObjectLinesRejected ==
    (\E j \in 1..Len(app.dataFile) : app.dataFile[j] \in NonObjectLines) =>
        /\ app.errors.upload = "JSONL parsing errors"
        /\ ~Started("c1")
        /\ app.pc = "settled"

\* round(100 * done / total) in exact arithmetic, halves rounded up as
\* Math.round does.
Rounded(done, total) == (200 * done + total) \div (2 * total)

\* C20 as stated: every published snapshot has percentage equal to
\* round(100 * (completed + failed) / total) when total > 0 and to 0 when
\* total = 0, all four numbers are non-negative integers and percentage is at
\* most 100.
C20_PercentageIsRounded ==
    /\ progress.total \in Nat /\ progress.completed \in Nat
    /\ progress.failed \in Nat /\ progress.percentage \in 0..100
    /\ progress.total = 0 => progress.percentage = 0
    /\ progress.total > 0 =>
           progress.percentage =
               Rounded(progress.completed + progress.failed, progress.total)

IsGeoPointSentinel(value) ==
    /\ value.type = "string"
    /\ StartsWith(value.string, GeoPointOpen)
    /\ EndsWith(value.string, GeoPointClose)

Keys(entries) == {entries[i].key : i \in 1..Len(entries)}

\* The wire value carries the one tag the mapping rules give the value, at
\* every depth; the rules are silent about GeoPoint sentinels here.
RECURSIVE Agrees(_, _), FieldsAgree(_, _)
Agrees(value, wire) ==
    CASE value.type = "null" -> DOMAIN wire = {"nullValue"}
      [] value.type = "string" ->
            IF value.string = TimestampSentinel THEN DOMAIN wire = {"timestampValue"}
            ELSE IF IsGeoPointSentinel(value) THEN TRUE
            ELSE wire = [stringValue |-> value.string]
      [] value.type = "number" ->
            IF value.number % 10 = 0 THEN wire = [integerValue |-> value.number]
            ELSE wire = [doubleValue |-> value.number]
      [] value.type = "boolean" -> wire = [booleanValue |-> value.boolean]
      [] value.type = "array" ->
            /\ DOMAIN wire = {"arrayValue"}
            /\ DOMAIN wire.arrayValue = {"values"}
            /\ Len(wire.arrayValue.values) = Len(value.elements)
            /\ \A i \in 1..Len(value.elements) :
                   Agrees(value.elements[i], wire.arrayValue.values[i])
      [] OTHER ->
            /\ DOMAIN wire = {"mapValue"}
            /\ FieldsAgree(value.entries, wire.mapValue)

FieldsAgree(entries, wire) ==
    /\ DOMAIN wire = {"fields"}
    /\ DOMAIN wire.fields = Keys(entries)
    /\ \A i \in 1..Len(entries) : Agrees(entries[i].value, wire.fields[entries[i].key])

\* C15 as stated: an encoded document is {fields: ...} over exactly its own
\* keys, and every value in it, at every depth, carries exactly the one wire
\* tag of its type: nullValue, timestampValue, stringValue (verbatim),
\* integerValue, doubleValue, booleanValue, arrayValue of the same length and
\* order, mapValue with exactly the same key set.
C15_OneTagByType ==
    (enc.pc = "done" /\ ~IsThrown(enc.wire)) =>
        FieldsAgree(Entries(enc.document), enc.wire)

\* s cut at the first occurrence of sep only.
SplitOnFirst(s, sep) ==
    IF \A i \in 1..Len(s) : s[i] # sep THEN <<s>>
    ELSE LET i == CHOOSE j \in 1..Len(s) :
                      s[j] = sep /\ \A m \in 1..(j - 1) : s[m] # sep
         IN <<SubSeq(s, 1, i - 1), SubSeq(s, i + 1, Len(s))>>

\* The whole of s, white space around it apart, is a decimal literal: an
\* optional sign, digits, and at most one point among them.
IsFloatLiteral(s) ==
    LET t == Trim(s)
        body == IF t # <<>> /\ t[1] \in {"-", "+"} THEN Tail(t) ELSE t
        whole == DigitPrefix(body)
        rest == SubSeq(body, Len(whole) + 1, Len(body))
        pointed == rest # <<>> /\ rest[1] = "."
        fraction == IF pointed THEN DigitPrefix(Tail(rest)) ELSE <<>>
    IN /\ whole # <<>> \/ fraction # <<>>
       /\ Len(body) = Len(whole) + (IF pointed THEN 1 + Len(fraction) ELSE 0)

\* The interior, cut at its first comma, gives exactly two components and
\* each is a floating-point number.
TwoParseableComponents(interior) ==
    LET parts == SplitOnFirst(interior, ",")
    IN Len(parts) = 2 /\ IsFloatLiteral(parts[1]) /\ IsFloatLiteral(parts[2])

\* C16 as stated: a field holding a string that starts with "GeoPoint(" and
\* ends with ")" is encoded to geoPointValue exactly when its interior, split
\* on the first comma, yields exactly two components that both parse as
\* floating-point numbers; otherwise the encoding of the document fails, and
\* the string is never encoded to stringValue.
C16_GeoPointGrammar ==
    enc.pc = "done" =>
        \A i \in 1..Len(Entries(enc.document)) :
            LET entry == Entries(enc.document)[i]
            IN IsGeoPointSentinel(entry.value) =>
                 IF TwoParseableComponents(Slice(entry.value.string, 9, -1))
                 THEN /\ ~IsThrown(enc.wire)
                      /\ entry.key \in DOMAIN enc.wire.fields =>
                             DOMAIN enc.wire.fields[entry.key] = {"geoPointValue"}
                 ELSE IsThrown(enc.wire)

\* The clock readings that the timestampValue fields of a wire value hold.
RECURSIVE ReadingsIn(_)
ReadingsIn(wire) ==
    IF "timestampValue" \in DOMAIN wire THEN {wire.timestampValue}
    ELSE IF "arrayValue" \in DOMAIN wire
    THEN UNION {ReadingsIn(wire.arrayValue.values[i]) :
                    i \in 1..Len(wire.arrayValue.values)}
    ELSE IF "mapValue" \in DOMAIN wire
    THEN UNION {ReadingsIn(wire.mapValue.fields[key]) :
                    key \in DOMAIN wire.mapValue.fields}
    ELSE {}

\* C17 as stated: all "Timestamp" values of one document, at any depth, are
\* encoded with the timestampValue of one and the same clock reading, even if
\* the clock advances while the document is being encoded.
C17_OneReadingPerDocument ==
    (enc.pc = "done" /\ ~IsThrown(enc.wire)) =>
        Cardinality(UNION {ReadingsIn(enc.wire.fields[key]) :
                               key \in DOMAIN enc.wire.fields}) <= 1

\* C21: of a call running alone, every settled document has exactly one
\* outcome entry among the entries emitted, an unsettled one has none, and no
\* outcome entry names anything but a position 1..n of the whole list; the
\* entry of the document at 0-based index k names k + 1, is of kind success
\* when its write succeeded and of kind error carrying the text of the
\* encoding or write error when it failed.
C21_OneOutcomeEntry ==
    \A c \in CallIds :
        Started(c) =>
            /\ \A k \in 1..N(c) :
                   IF Settled(call[c].status[k])
                   THEN /\ Cardinality(DocEntries(emitted, k)) = 1
                        /\ \A j \in DocEntries(emitted, k) : TellsOutcome(emitted[j], c, k)
                   ELSE DocEntries(emitted, k) = {}
            /\ \A j \in 1..Len(emitted) :
                   emitted[j].message.text \in {"Document uploaded successfully",
                                                "Failed to upload document"} =>
                       emitted[j].message.a \in 1..N(c)

C21_Witness ==
    /\ call["c1"].pc = "resolved"
    /\ N("c1") = 7
    /\ call["c1"].documents[7] = "malformed_geopoint"
    /\ \E j \in 1..Len(emitted) :
          /\ emitted[j].type = "error"
          /\ emitted[j].message = Message("Failed to upload document", 7, 0)
          /\ emitted[j].details = EncodingError
    /\ \E j \in 1..Len(emitted) :
          /\ emitted[j].type = "success"
          /\ emitted[j].message = Message("Document uploaded successfully", 6, 0)

\* The passes of the loop whose batch held document k.
PassesOf(c, k) == {m \in 1..Len(call[c].groups) : k \in call[c].groups[m]}

C24_AtMostOnce ==
    \A c \in CallIds :
        TokenAcquired(c) =>
            \A k \in 1..N(c) :
                /\ Cardinality(PassesOf(c, k)) = (IF call[c].status[k] = "waiting" THEN 0 ELSE 1)
                /\ call[c].posts[k] =
                       (IF call[c].status[k] = "waiting" \/ EncodingFails(call[c].documents[k])
                        THEN 0 ELSE 1)
                /\ call[c].pc = "resolved" => Settled(call[c].status[k])

C24_NoRetry ==
    \A c \in CallIds :
        \A k \in 1..N(c) :
            Settled(call[c].status[k]) =>
                /\ call'[c].status[k] = call[c].status[k]
                /\ call'[c].posts[k] = call[c].posts[k]
                /\ PassesOf(c, k)' = PassesOf(c, k)

\* C24: once the token is there, every document is taken by exactly one pass
\* of the loop (none while it waits), which encodes it once and issues one
\* POST for it, or none when its encoding fails; a settled document is never
\* taken again, and when the call resolves every document has been taken and
\* has settled, whatever failed before it.
C24_AttemptedOnce == []C24_AtMostOnce /\ [][C24_NoRetry]_vars

C24_Witness ==
    /\ call["c1"].pc = "resolved"
    /\ N("c1") = 7
    /\ call["c1"].response[2] = "encoding_error"
    /\ call["c1"].posts[2] = 0
    /\ call["c1"].posts[7] = 1
    /\ call["c1"].status[7] = "ok"
    /\ Len(call["c1"].groups) = 2

\* Documents holding the malformed sentinel "GeoPoint(x)": as a field, inside
\* an array, and inside an array of a map after a well-formed field.
MalformedSamples ==
    LET malformed == Str(GeoPointOpen \o <<"x">> \o GeoPointClose)
    IN {Obj(<<Entry("a", malformed)>>),
        Obj(<<Entry("a", Arr(<<Num(10), malformed>>))>>),
        Obj(<<Entry("a", Num(10)),
              Entry("b", Obj(<<Entry("a", Arr(<<malformed>>))>>))>>)}

\* C25: the encoder gives nothing but the exception for a document holding a
\* malformed GeoPoint sentinel at any depth, and for a document whose encoding
\* fails no POST is ever issued: it goes from waiting to thrown to failed with
\* the encoding error, without a request and without the token.
C25_NoWriteWithoutEncoding ==
    /\ \A d \in MalformedSamples : ConvertToFirestoreFormat(d, <<>>) = Throw(EncodingError)
    /\ \A c \in CallIds :
          \A k \in 1..N(c) :
              EncodingFails(call[c].documents[k]) =>
                  /\ call[c].posts[k] = 0
                  /\ call[c].bearer[k] = ""
                  /\ call[c].status[k] \in {"waiting", "thrown", "failed"}
                  /\ call[c].response[k] \in {"none", "encoding_error"}
                  /\ call[c].status[k] = "failed" <=> call[c].response[k] = "encoding_error"

C25_Witness ==
    /\ call["c1"].pc = "resolved"
    /\ N("c1") = 6
    /\ call["c1"].documents[6] = "malformed_geopoint"
    /\ call["c1"].status[6] = "failed"
    /\ call["c1"].posts[6] = 0
    /\ call["c1"].posts[5] = 1
    /\ progress.failed = 1

OutcomeTexts == {"Document uploaded successfully", "Failed to upload document"}

\* The emitted per-document entries of one kind.
OutcomeEntries(type) ==
    {j \in 1..Len(emitted) :
        emitted[j].message.text \in OutcomeTexts /\ emitted[j].type = type}

\* The emitted entries with the given text.
EntriesSaying(text) == {j \in 1..Len(emitted) : emitted[j].message.text = text}

\* C26: of a call running alone, the per-document success entries emitted are
\* as many as completed and the per-document error entries as many as failed,
\* at every moment; when the call has resolved, one "Upload completed" entry
\* was emitted and it prints the final completed and failed.
C26_CountersMatchEntries ==
    \A c \in CallIds :
        TokenAcquired(c) =>
            /\ Cardinality(OutcomeEntries("success")) = call[c].completed
            /\ Cardinality(OutcomeEntries("error")) = call[c].failed
            /\ \A j \in OutcomeEntries("success") :
                   emitted[j].message.text = "Document uploaded successfully"
            /\ \A j \in OutcomeEntries("error") :
                   emitted[j].message.text = "Failed to upload document"
            /\ IF call[c].pc = "resolved"
               THEN /\ Cardinality(EntriesSaying("Upload completed")) = 1
                    /\ \A j \in EntriesSaying("Upload completed") :
                           /\ emitted[j].type = "success"
                           /\ emitted[j].message.a = call[c].completed
                           /\ emitted[j].message.b = call[c].failed
               ELSE EntriesSaying("Upload completed") = {}

C26_Witness ==
    /\ call["c1"].pc = "resolved"
    /\ N("c1") = 6
    /\ call["c1"].completed = 3
    /\ call["c1"].failed = 3
    /\ emitted[Len(emitted)].message = Message("Upload completed", 3, 3)

\* C27: of a call running alone that got its token, "Access token obtained"
\* and then "Starting upload" were emitted, once each, before every
\* per-document entry; every entry of a group was emitted before every entry
\* of a later group; and when the call has resolved "Upload completed" is the
\* last entry emitted and the first entry of the log.
C27_LifecycleBrackets ==
    \A c \in CallIds :
        TokenAcquired(c) =>
            LET outcomes == OutcomeEntries("success") \cup OutcomeEntries("error")
                obtained == EntriesSaying("Access token obtained successfully")
                starting == EntriesSaying("Starting upload of documents")
            IN /\ Cardinality(obtained) = 1
               /\ Cardinality(starting) = 1
               /\ \A t \in obtained : \A s \in starting :
                      t < s /\ \A j \in outcomes : s < j
               /\ \A j1, j2 \in outcomes :
                      GroupOf(emitted[j1].message.a) < GroupOf(emitted[j2].message.a)
                          => j1 < j2
               /\ call[c].pc = "resolved" =>
                      /\ emitted[Len(emitted)].message.text = "Upload completed"
                      /\ logs[1] = emitted[Len(emitted)]
                      /\ \A j \in outcomes : j < Len(emitted)

C27_Witness ==
    /\ call["c1"].pc = "resolved"
    /\ env.order = "any"
    /\ N("c1") = 6
    /\ Len(emitted) = 12
    /\ emitted[6].message.a = 5
    /\ emitted[10].message.a = 1
    /\ emitted[11].message.a = 6
    /\ logs[1].message.text = "Upload completed"

\* C28 as stated: no two entries held in the log at the same time have the
\* same id, also when they were emitted at the same clock reading.
C28_UniqueLogIds ==
    \A i, j \in 1..Len(logs) : i # j => logs[i].id # logs[j].id

\* The documents of call c with the given status.
WithStatus(c, st) == {k \in 1..N(c) : call[c].status[k] = st}

C22_OwnCounters ==
    \A c \in CallIds :
        /\ call[c].completed = Cardinality(WithStatus(c, "ok"))
        /\ call[c].failed = Cardinality(WithStatus(c, "failed"))
        /\ call[c].pc = "resolved" => call[c].completed + call[c].failed = N(c)

C22_OwnSteps ==
    \A c, d \in CallIds :
        (c # d /\ <<call'[c].completed, call'[c].failed>> # <<call[c].completed, call[c].failed>>)
            => call'[d] = call[d]

\* C22: with two calls on one hook, in every interleaving of their requests,
\* each call's completed and failed count the documents of that call that
\* succeeded and failed, a step that counts for one call leaves the other call
\* as it is, and a resolved call has completed + failed equal to the length
\* of its own list.
C22_CountersPerCall == []C22_OwnCounters /\ [][C22_OwnSteps]_vars

C22_Witness ==
    /\ call["c1"].pc = "resolved" /\ call["c2"].pc = "resolved"
    /\ emitted[3].message.text = "Getting access token for project"
    /\ N("c1") = 6 /\ N("c2") = 1
    /\ call["c1"].completed = 5 /\ call["c1"].failed = 1
    /\ call["c2"].completed = 1 /\ call["c2"].failed = 0
    /\ emitted[Len(emitted)].message = Message("Upload completed", 5, 1)
    /\ \E j \in 1..Len(emitted) :
          /\ emitted[j].message = Message("Upload completed", 1, 0)
          /\ emitted[j - 1].message = Message("Document uploaded successfully", 1, 0)
          /\ emitted[j - 2].message = Message("Document uploaded successfully", 3, 0)

Running(c) == Started(c) /\ ~Ended(c)

\* C23 as stated: through the Start button at most one upload is in flight:
\* the second run of handleUpload reaches uploadDocuments only once the first
\* run has settled, so the calls of the two runs are never running together.
C23_OneUploadAtATime ==
    /\ ~(Running("c1") /\ Running("c2"))
    /\ Started("c2") => app.pc = "settled"

\* C29: when no custom instructions are stored, getCustomInstructions ends
\* after a bounded number of calls, without getCustomInstructions and
\* saveCustomInstruction calling each other until the stack has no room left,
\* it persists exactly one default instruction and it returns the list of
\* exactly that instruction.
C29_BoundedMutualCalls ==
    /\ store.emptyAtCall => ~store.overflowed
    /\ (store.emptyAtCall /\ store.mode = "idle" /\ store.result.op = "get") =>
          /\ store.stored
          /\ store.items = <<DefaultInstruction>>
          /\ store.result.list = <<DefaultInstruction>>

\* The instructions of a list that are flagged default.
Defaults(instructions) ==
    {instructions[j] : j \in {m \in 1..Len(instructions) : instructions[m].isDefault}}

\* The instructions of a list.
Stored(instructions) == {instructions[j] : j \in 1..Len(instructions)}

\* A step of a call of deleteCustomInstruction made by a component keeps
\* every instruction that is flagged default.
C30_DefaultsKept ==
    (store.stack # <<>> /\ store.stack[1].fn = "delete" /\ store.stored) =>
        Defaults(store.items) \subseteq Stored(store'.items)

\* deleteCustomInstruction called with the id of an instruction flagged
\* default returns false and leaves the stored list as it was.
C30_DefaultRefused ==
    (/\ store.mode = "return"
     /\ Len(store.stack) = 1
     /\ store.stack[1].fn = "delete"
     /\ \E i \in Defaults(store.items) : i.id = store.stack[1].id) =>
        /\ store'.mode = "idle"
        /\ store'.result.op = "delete"
        /\ ~store'.result.ok
        /\ store'.items = store.items
        /\ store'.stored = store.stored

\* C30: deleteCustomInstruction never deletes the default instruction: with
\* the id of an instruction whose isDefault is true it returns false and
\* leaves the stored list unchanged, and every instruction flagged default is
\* still stored after any delete call.
C30_DefaultNeverDeleted == [][C30_DefaultsKept /\ C30_DefaultRefused]_vars

\* A delete of the default instruction was refused while a custom instruction
\* was stored next to it.
C30_Witness ==
    /\ store.mode = "idle"
    /\ store.result.op = "delete"
    /\ store.result.id = "default"
    /\ ~store.result.ok
    /\ Len(store.items) >= 2
    /\ DefaultInstruction \in Defaults(store.items)

====
